---- MODULE Spec2Model ----
(***************************************************************************)
(* A model of pyslack: SlackClient (name-resolution caches, the rate-limit *)
(* gate of _make_request, the endpoint methods) and SlackHandler.          *)
(*                                                                         *)
(* Every public method is one action.  A method is computed by an operator *)
(* over a "frame" p: the instance fields of the client plus the trace of   *)
(* the call in progress (requests handed to the transport, the pending     *)
(* exception, the value returned by the last call).  A Python exception is *)
(* the field p.err; every step after a raise is skipped.                   *)
(***************************************************************************)
EXTENDS Integers, Sequences, FiniteSets, TLC

\* ------------------------------------------------------------------ bounds
MaxTime == 2          \* the clock runs over 0..MaxTime
MaxRetry == 2         \* the retry-after headers carry 0..MaxRetry
MaxMsgs == 2          \* messages in one channels.history response

\* ------------------------------------------------------- program constants
TooManyRequests == 429
MinCount == 1
MaxCount == 1000
ExcludeArchivedOn == 1
ExcludeArchivedOff == 0
\* stars_list(self, user, count=100, page=1, **params)
DefaultCount == 100
DefaultPage == 1

\* self.blocked_until = None
NoDeadline == -1
\* Python's None where a string is expected (dict.get on a miss)
None == "None"
Token == "my key"
\* the token of a second SlackClient(token)
PeerToken == "other key"

\* ------------------------------------------------------------ the universe
\* The platform's channels and users: each exists or not, under its own name.
ChannelIds == {"C1", "C2"}
ChannelNames == {"general", "random"}
ChannelNameOf == [C1 |-> "general", C2 |-> "random"]
UserIds == {"U1"}
UserNames == {"alice"}
UserNameOf == [U1 |-> "alice"]
Absent == "absent"
ChannelIdOrder == <<"C1", "C2">>
UserIdOrder == <<"U1">>
SLACKBOT == "USLACKBOT"
ErrorCodes == {"channel_not_found", "invalid_auth"}

\* ------------------------------------------------------------ Python dicts
EmptyDict == [k \in {} |-> k]
Put(d, k, v) == [x \in (DOMAIN d) \cup {k} |-> IF x = k THEN v ELSE d[x]]
\* d.update(e): the keys of e win
Update(d, e) == [x \in (DOMAIN d) \cup (DOMAIN e) |-> IF x \in DOMAIN e THEN e[x] ELSE d[x]]
Get(d, k) == IF k \in DOMAIN d THEN d[k] ELSE None
Truthy(d) == DOMAIN d # {}

\* ------------------------------------------------------------- exceptions
NoErr == [exc |-> "none", why |-> "", code |-> "", num |-> 0]
Raise(exc, why, code, num) == [exc |-> exc, why |-> why, code |-> code, num |-> num]

VARIABLES
    now,                  \* datetime.datetime.utcnow(), in seconds
    srvChannels,          \* the platform: channel id -> name, or Absent
    srvUsers,             \* the platform: user id -> name, or Absent
    channels,             \* self.channels
    ul_by_id,             \* self.ul_by_id
    ul_by_name,           \* self.ul_by_name
    blocked_until,        \* self.blocked_until
    channel_name_id_map,  \* self.channel_name_id_map
    peer,                 \* the fields of a second SlackClient instance
    last                  \* the last call of a public method and what it did

vars == <<now, srvChannels, srvUsers, channels, ul_by_id, ul_by_name,
          blocked_until, channel_name_id_map, peer, last>>

\* ------------------------------------------------------- int(header value)
DigitChars == <<"0", "1", "2", "3", "4", "5", "6", "7", "8", "9">>
IsDigit(c) == \E i \in 1..10 : DigitChars[i] = c
DigitValue(c) == (CHOOSE i \in 1..10 : DigitChars[i] = c) - 1

RECURSIVE DigitsValue(_, _)
DigitsValue(s, acc) ==
    IF s = <<>> THEN acc ELSE DigitsValue(Tail(s), 10 * acc + DigitValue(Head(s)))

\* Python's int(str): an optional sign, then one or more digits; anything
\* else raises ValueError.  The string is a sequence of characters.
PyInt(s) ==
    LET signed == s # <<>> /\ Head(s) \in {"-", "+"}
        digits == IF signed THEN Tail(s) ELSE s
        valid == digits # <<>> /\ \A i \in 1..Len(digits) : IsDigit(digits[i])
        value == DigitsValue(digits, 0)
    IN  IF ~valid THEN [ok |-> FALSE, val |-> 0]
        ELSE [ok |-> TRUE, val |-> IF signed /\ Head(s) = "-" THEN 0 - value ELSE value]

\* the decimal digits of a natural number, as the platform writes them
RECURSIVE Decimal(_)
Decimal(n) ==
    IF n < 10 THEN <<DigitChars[n + 1]>>
    ELSE Decimal(n \div 10) \o <<DigitChars[(n % 10) + 1]>>

\* ---------------------------------------------------------- the platform
\* The records of a listing response, in the platform's order.
RECURSIVE Listing(_, _)
Listing(order, dir) ==
    IF order = <<>> THEN <<>>
    ELSE LET rest == Listing(Tail(order), dir)
         IN  IF dir[Head(order)] = Absent THEN rest
             ELSE <<[id |-> Head(order), name |-> dir[Head(order)]]>> \o rest

\* the response headers of a 429: retry-after absent, a number, or malformed
RetryHeaders ==
    {EmptyDict}
    \cup {[h \in {"retry-after"} |-> Decimal(n)] : n \in 0..MaxRetry}
    \cup {[h \in {"retry-after"} |-> <<"a">>]}

\* the responses that make a request fail
Failures ==
    {[status_code |-> TooManyRequests, headers |-> h, json |-> FALSE, body |-> EmptyDict]
        : h \in RetryHeaders}
    \cup {[status_code |-> 200, headers |-> EmptyDict, json |-> TRUE,
           body |-> [ok |-> FALSE, error |-> e]] : e \in ErrorCodes}
    \cup {[status_code |-> 500, headers |-> EmptyDict, json |-> FALSE, body |-> EmptyDict]}

\* the messages of a channels.history response: some carry a user id
MessageShapes ==
    {[text |-> "hi"]} \cup {[text |-> "hi", user |-> u] : u \in UserIds \cup {SLACKBOT}}
RECURSIVE SeqsUpTo(_, _)
SeqsUpTo(S, n) ==
    IF n = 0 THEN {<<>>}
    ELSE LET shorter == SeqsUpTo(S, n - 1)
         IN  shorter \cup {Append(q, x) : q \in shorter, x \in S}
Histories == SeqsUpTo(MessageShapes, MaxMsgs)

\* What the platform answers to the i-th request of a call.  The oracle says
\* which request (if any) fails and how, and what channels.history holds;
\* every other request succeeds with the platform's current data.
Payload(method, orc) ==
    CASE method = "channels.list" ->
            [ok |-> TRUE, channels |-> Listing(ChannelIdOrder, srvChannels)]
      [] method = "users.list" ->
            [ok |-> TRUE, members |-> Listing(UserIdOrder, srvUsers)]
      [] method = "channels.history" ->
            [ok |-> TRUE, messages |-> orc.messages]
      [] OTHER -> [ok |-> TRUE]

requests_post(method, i, orc) ==
    IF orc.failAt = i THEN orc.failure
    ELSE [status_code |-> 200, headers |-> EmptyDict, json |-> TRUE,
          body |-> Payload(method, orc)]

NoFailure == [status_code |-> 0, headers |-> EmptyDict, json |-> FALSE, body |-> EmptyDict]
AllSucceed == [failAt |-> 0, failure |-> NoFailure, messages |-> <<>>]
\* The oracles of a call that sends n requests when none fails: none fails
\* (and channels.history holds one of hist), or the k-th fails in some way.
Oracles(n, hist) ==
    {[failAt |-> 0, failure |-> NoFailure, messages |-> m] : m \in hist}
    \cup {[failAt |-> k, failure |-> f, messages |-> <<>>] : k \in 1..n, f \in Failures}

\* ------------------------------------------------------------ the frame
Frame ==
    [token |-> Token,
     channels |-> channels, ul_by_id |-> ul_by_id, ul_by_name |-> ul_by_name,
     blocked_until |-> blocked_until, channel_name_id_map |-> channel_name_id_map,
     calls |-> <<>>, attempts |-> 0, err |-> NoErr, ret |-> None]

\* SlackClient.__init__: the fields of a new instance
NewClient(token) ==
    [token |-> token, channels |-> EmptyDict, ul_by_id |-> EmptyDict,
     ul_by_name |-> EmptyDict, blocked_until |-> NoDeadline,
     channel_name_id_map |-> EmptyDict]

\* PeerFrame with the deadline kept in one place for every instance
PeerFrame_shared_deadline ==
    [token |-> peer.token,
     channels |-> peer.channels, ul_by_id |-> peer.ul_by_id,
     ul_by_name |-> peer.ul_by_name, blocked_until |-> blocked_until,
     channel_name_id_map |-> peer.channel_name_id_map,
     calls |-> <<>>, attempts |-> 0, err |-> NoErr, ret |-> None]

\* the frame of a call on the second instance: self is that instance
PeerFrame ==
    [token |-> peer.token,
     channels |-> peer.channels, ul_by_id |-> peer.ul_by_id,
     ul_by_name |-> peer.ul_by_name, blocked_until |-> peer.blocked_until,
     channel_name_id_map |-> peer.channel_name_id_map,
     calls |-> <<>>, attempts |-> 0, err |-> NoErr, ret |-> None]
Raised(p) == p.err.exc # "none"

\* gate_closed with the comparison turned around
gate_closed_reversed(p) == p.blocked_until # NoDeadline /\ now > p.blocked_until

\* _make_request, the gate: a deadline is set and the clock is before it
gate_closed(p) == p.blocked_until # NoDeadline /\ now < p.blocked_until

\* too_many_requests with the deadline set to the retry-after seconds alone
too_many_requests_relative(p, response) ==
    LET header == IF "retry-after" \in DOMAIN response.headers
                  THEN response.headers["retry-after"] ELSE <<"1">>
        retry_after == PyInt(header)
    IN  IF ~retry_after.ok
        THEN [p EXCEPT !.err = Raise("ValueError", "int", "", 0)]
        ELSE [p EXCEPT !.blocked_until = retry_after.val,
                       !.err = Raise("SlackError", "retry_after", "", retry_after.val)]

\* _make_request on status 429: the deadline is set, then the error is raised;
\* int() of a malformed header raises before the deadline is touched
too_many_requests(p, response) ==
    LET header == IF "retry-after" \in DOMAIN response.headers
                  THEN response.headers["retry-after"] ELSE <<"1">>
        retry_after == PyInt(header)
    IN  IF ~retry_after.ok
        THEN [p EXCEPT !.err = Raise("ValueError", "int", "", 0)]
        ELSE [p EXCEPT !.blocked_until = now + retry_after.val,
                       !.err = Raise("SlackError", "retry_after", "", retry_after.val)]

\* parse_result that raises SlackError without the platform's error string
parse_result_no_code(p, response) ==
    IF ~response.json
    THEN [p EXCEPT !.err = Raise("ValueError", "json", "", 0)]
    ELSE IF ~response.body.ok
         THEN [p EXCEPT !.err = Raise("SlackError", "api", "", 0)]
         ELSE [p EXCEPT !.ret = response.body]

\* _make_request on any other status: response.json(), then the ok flag
parse_result(p, response) ==
    IF ~response.json
    THEN [p EXCEPT !.err = Raise("ValueError", "json", "", 0)]
    ELSE IF ~response.body.ok
         THEN [p EXCEPT !.err = Raise("SlackError", "api", response.body.error, 0)]
         ELSE [p EXCEPT !.ret = response.body]

\* _make_request, after requests.post: the status decides
receive(p, method, data, response) ==
    IF response.status_code = TooManyRequests
    THEN too_many_requests(
             [p EXCEPT !.calls = Append(@, [method |-> method, params |-> data,
                                            response |-> response, parsed |-> FALSE])],
             response)
    ELSE parse_result(
             [p EXCEPT !.calls = Append(@, [method |-> method, params |-> data,
                                            response |-> response, parsed |-> TRUE])],
             response)

\* SlackClient._make_request.  Every request handed to the transport is kept
\* in p.calls with its response and whether response.json() was called on it;
\* p.attempts counts the entries into _make_request.
make_request(p, method, params, orc) ==
    IF Raised(p) THEN p
    ELSE IF gate_closed(p)
    THEN [p EXCEPT !.attempts = @ + 1,
                   !.err = Raise("SlackError", "wait_until", "", p.blocked_until)]
    ELSE receive([p EXCEPT !.attempts = @ + 1], method, Put(params, "token", p.token),
                 requests_post(method, Len(p.calls) + 1, orc))

\* ------------------------------------------------------ strings with '#'
Strings == ChannelNames \cup ChannelIds \cup {""}
\* s.startswith('#')
startswith_hash(s) == \E n \in Strings : s = "#" \o n
\* s[1:], for a string that starts with '#'
without_first(s) == CHOOSE n \in Strings : s = "#" \o n

\* SlackClient._channel_is_name
channel_is_name(channel) == startswith_hash(channel)

\* ----------------------------------------------------- the cache builders
\* {channel['name']: channel['id'] for channel in channels}
RECURSIVE name_id_dict(_, _)
name_id_dict(records, acc) ==
    IF records = <<>> THEN acc
    ELSE name_id_dict(Tail(records), Put(acc, Head(records).name, Head(records).id))

\* for channel_ in ...: self.channels[channel_['name']] = channel_
RECURSIVE store_by_name(_, _)
store_by_name(records, acc) ==
    IF records = <<>> THEN acc
    ELSE store_by_name(Tail(records), Put(acc, Head(records).name, Head(records)))

\* for user_ in ...: self.ul_by_id[user_['id']] = user_
RECURSIVE store_by_id(_, _)
store_by_id(records, acc) ==
    IF records = <<>> THEN acc
    ELSE store_by_id(Tail(records), Put(acc, Head(records).id, Head(records)))

Slackbot == [status |-> None, profile |-> EmptyDict, name |-> "Slackbot"]

\* SlackClient.channels_list
channels_list(p, exclude_archived, params, orc) ==
    make_request(p, "channels.list",
        Put(params, "exclude_archived",
            IF exclude_archived THEN ExcludeArchivedOn ELSE ExcludeArchivedOff),
        orc)

\* SlackClient.channel_list
channel_list(p, exclude_archived, params, orc) ==
    make_request(p, "channels.list", Put(params, "exclude_archived", exclude_archived), orc)

\* SlackClient.users_list
users_list(p, params, orc) == make_request(p, "users.list", params, orc)

\* update_channel_lists_dict, the loop over the listing
store_channels(r) ==
    IF Raised(r) THEN r
    ELSE [r EXCEPT !.channels = store_by_name(r.ret.channels, @), !.ret = None]

\* SlackClient.update_channel_lists_dict
update_channel_lists_dict(p, orc) ==
    store_channels(channel_list(p, ExcludeArchivedOff, EmptyDict, orc))

\* update_user_lists_dicts, the loop over the listing and the Slackbot entry
store_users(r) ==
    IF Raised(r) THEN r
    ELSE [r EXCEPT !.ul_by_id = Put(store_by_id(r.ret.members, @), SLACKBOT, Slackbot),
                   !.ul_by_name = store_by_name(r.ret.members, @),
                   !.ret = None]

\* SlackClient.update_user_lists_dicts
update_user_lists_dicts(p, orc) == store_users(users_list(p, EmptyDict, orc))

\* setup_cache: if force_refresh or not self.ul_by_id
setup_users(p, force_refresh, orc) ==
    IF Raised(p) THEN p
    ELSE IF force_refresh \/ ~Truthy(p.ul_by_id) THEN update_user_lists_dicts(p, orc)
    ELSE p

\* setup_cache: if force_refresh or not self.channels
setup_channels(p, force_refresh, orc) ==
    IF Raised(p) THEN p
    ELSE IF force_refresh \/ ~Truthy(p.channels) THEN update_channel_lists_dict(p, orc)
    ELSE [p EXCEPT !.ret = None]

\* SlackClient.setup_cache
setup_cache(p, force_refresh, orc) ==
    setup_channels(setup_users(p, force_refresh, orc), force_refresh, orc)

\* needs_lookup with the "not" left out
needs_lookup_inverted(p, force_lookup) == force_lookup \/ Truthy(p.channel_name_id_map)

\* channel_name_to_id: if force_lookup or not self.channel_name_id_map
needs_lookup(p, force_lookup) == force_lookup \/ ~Truthy(p.channel_name_id_map)

\* channel_name_to_id: the mapping is replaced by the listing's
store_name_id_map(r) ==
    IF Raised(r) THEN r
    ELSE [r EXCEPT !.channel_name_id_map = name_id_dict(r.ret.channels, EmptyDict)]

\* channel_name.startswith('#') and channel_name[1:] or channel_name
strip_hash(channel_name) ==
    IF startswith_hash(channel_name) /\ without_first(channel_name) # ""
    THEN without_first(channel_name) ELSE channel_name

\* channel_name_to_id: return self.channel_name_id_map.get(channel)
lookup(p, channel_name) ==
    IF Raised(p) THEN p
    ELSE [p EXCEPT !.ret = Get(p.channel_name_id_map, strip_hash(channel_name))]

\* channel_name_to_id: the refresh
refresh(p, force_lookup, orc) ==
    IF Raised(p) THEN p
    ELSE IF needs_lookup(p, force_lookup)
    THEN store_name_id_map(channels_list(p, TRUE, EmptyDict, orc))
    ELSE p

\* SlackClient.channel_name_to_id
channel_name_to_id(p, channel_name, force_lookup, orc) ==
    lookup(refresh(p, force_lookup, orc), channel_name)

\* SlackClient.auth_test
auth_test(p, params, orc) == make_request(p, "auth.test", params, orc)

\* chat_post_message, with the channel resolved (r.ret)
post_message(r, text, params, orc) ==
    IF Raised(r) THEN r
    ELSE make_request(r, "chat.postMessage",
                      Update(params, [channel |-> r.ret, text |-> text]), orc)

\* SlackClient.chat_post_message
chat_post_message(p, channel, text, params, orc) ==
    post_message(channel_name_to_id(p, channel, FALSE, orc), text, params, orc)

\* prettify that hands the messages back last first
RECURSIVE prettify_reversed(_, _, _)
prettify_reversed(messages, by_id, done) ==
    IF messages = <<>> THEN [ok |-> TRUE, messages |-> done, key |-> ""]
    ELSE IF "user" \in DOMAIN Head(messages)
    THEN IF Head(messages).user \in DOMAIN by_id
         THEN prettify_reversed(Tail(messages), by_id,
                                <<[Head(messages) EXCEPT !.user = by_id[@]]>> \o done)
         ELSE [ok |-> FALSE, messages |-> done, key |-> Head(messages).user]
    ELSE prettify_reversed(Tail(messages), by_id, <<Head(messages)>> \o done)

\* for u in ret['messages']: if 'user' in u: u['user'] = self.ul_by_id[u['user']]
\* The result is the rewritten list, or the key of the first failed lookup.
RECURSIVE prettify(_, _, _)
prettify(messages, by_id, done) ==
    IF messages = <<>> THEN [ok |-> TRUE, messages |-> done, key |-> ""]
    ELSE IF "user" \in DOMAIN Head(messages)
    THEN IF Head(messages).user \in DOMAIN by_id
         THEN prettify(Tail(messages), by_id,
                       Append(done, [Head(messages) EXCEPT !.user = by_id[@]]))
         ELSE [ok |-> FALSE, messages |-> done, key |-> Head(messages).user]
    ELSE prettify(Tail(messages), by_id, Append(done, Head(messages)))

\* channel_history: the messages are rewritten in place, or KeyError
prettified(r, pretty) ==
    IF pretty.ok THEN [r EXCEPT !.ret.messages = pretty.messages]
    ELSE [r EXCEPT !.err = Raise("KeyError", "ul_by_id", pretty.key, 0)]

\* channel_history: if do_prettify
history_prettify(r, do_prettify) ==
    IF Raised(r) \/ ~do_prettify THEN r
    ELSE prettified(r, prettify(r.ret.messages, r.ul_by_id, <<>>))

\* channel_history: the request, with the channel resolved (r.ret)
history_request(r, count, params, orc) ==
    IF Raised(r) THEN r
    ELSE make_request(r, "channels.history",
                      Update(params, [channel |-> r.ret, count |-> count]), orc)

\* channel_history: if count < 1 or count > 1000
count_out_of_range(count) == count < MinCount \/ count > MaxCount

\* channel_history, after setup_cache()
history_checked(p, channel, count, do_prettify, params, orc) ==
    IF Raised(p) THEN p
    ELSE IF count_out_of_range(count)
    THEN [p EXCEPT !.err = Raise("SlackError", "count_out_of_range", "", count)]
    ELSE history_prettify(
             history_request(channel_name_to_id(p, channel, FALSE, orc), count, params, orc),
             do_prettify)

\* SlackClient.channel_history
channel_history(p, channel, count, do_prettify, params, orc) ==
    history_checked(setup_cache(p, FALSE, orc), channel, count, do_prettify, params, orc)

\* invite_request with the user looked up by .get(), as the channel is
invite_request_get(r, user, params, orc) ==
    IF Raised(r) THEN r
    ELSE make_request(r, "channels.invite",
             Update(params, [channel |-> r.ret,
                             user |-> IF user \in DOMAIN r.ul_by_name
                                      THEN r.ul_by_name[user].id ELSE None]), orc)

\* channels_invite: self.ul_by_name[user]['id'], then the request
invite_request(r, user, params, orc) ==
    IF Raised(r) THEN r
    ELSE IF user \notin DOMAIN r.ul_by_name
    THEN [r EXCEPT !.err = Raise("KeyError", "ul_by_name", user, 0)]
    ELSE make_request(r, "channels.invite",
             Update(params, [channel |-> r.ret, user |-> r.ul_by_name[user].id]), orc)

\* SlackClient.channels_invite
channels_invite(p, channel, user, params, orc) ==
    invite_request(channel_name_to_id(setup_cache(p, FALSE, orc), channel, FALSE, orc),
                   user, params, orc)

\* a method whose params are {'channel': self.channel_name_to_id(channel), ...}
\* (channels_join: 'name'), with the channel resolved (r.ret)
channel_request(r, method, key, extra, params, orc) ==
    IF Raised(r) THEN r
    ELSE make_request(r, method, Update(Update(params, Put(EmptyDict, key, r.ret)), extra), orc)

\* SlackClient.chat_delete
chat_delete(p, channel, ts, params, orc) ==
    channel_request(channel_name_to_id(p, channel, FALSE, orc), "chat.delete", "channel",
                    [ts |-> ts], params, orc)

\* SlackClient.chat_update
chat_update(p, channel, ts, text, params, orc) ==
    channel_request(channel_name_to_id(p, channel, FALSE, orc), "chat.update", "channel",
                    [ts |-> ts, text |-> text], params, orc)

\* SlackClient.channels_info
channels_info(p, channel, params, orc) ==
    channel_request(channel_name_to_id(p, channel, FALSE, orc), "channels.info", "channel",
                    EmptyDict, params, orc)

\* SlackClient.channels_join: the resolved channel goes under 'name'
channels_join(p, channel, params, orc) ==
    channel_request(channel_name_to_id(p, channel, FALSE, orc), "channels.join", "name",
                    EmptyDict, params, orc)

\* SlackClient.channels_leave
channels_leave(p, channel, params, orc) ==
    channel_request(channel_name_to_id(p, channel, FALSE, orc), "channels.leave", "channel",
                    EmptyDict, params, orc)

\* SlackClient.channels_mark
channels_mark(p, channel, ts, params, orc) ==
    channel_request(channel_name_to_id(p, channel, FALSE, orc), "channels.mark", "channel",
                    [ts |-> ts], params, orc)

\* SlackClient.channels_setPurpose
channels_setPurpose(p, channel, purpose, params, orc) ==
    channel_request(channel_name_to_id(p, channel, FALSE, orc), "channels.setPurpose",
                    "channel", [purpose |-> purpose], params, orc)

\* SlackClient.channels_setTopic
channels_setTopic(p, channel, topic, params, orc) ==
    channel_request(channel_name_to_id(p, channel, FALSE, orc), "channels.setTopic",
                    "channel", [topic |-> topic], params, orc)

\* SlackClient.emoji_list
emoji_list(p, params, orc) == make_request(p, "emoji.list", params, orc)

\* stars_list: self.ul_by_name[user]['id'], then the request
stars_request(r, user, count, page, params, orc) ==
    IF Raised(r) THEN r
    ELSE IF user \notin DOMAIN r.ul_by_name
    THEN [r EXCEPT !.err = Raise("KeyError", "ul_by_name", user, 0)]
    ELSE make_request(r, "stars.list",
             Update(params, [user |-> r.ul_by_name[user].id, count |-> count,
                             page |-> page]), orc)

\* SlackClient.stars_list
stars_list(p, user, count, page, params, orc) ==
    stars_request(setup_cache(p, FALSE, orc), user, count, page, params, orc)

\* chat_update_message: if self._channel_is_name(channel), the channel is
\* resolved; otherwise it goes into the request as it was given
resolve_if_name(p, channel, orc) ==
    IF Raised(p) THEN p
    ELSE IF channel_is_name(channel) THEN channel_name_to_id(p, channel, FALSE, orc)
    ELSE [p EXCEPT !.ret = channel]

\* SlackClient.chat_update_message
chat_update_message(p, channel, text, timestamp, params, orc) ==
    channel_request(resolve_if_name(p, channel, orc), "chat.update", "channel",
                    [text |-> text, ts |-> timestamp], params, orc)

\* ------------------------------------------------------- SlackHandler
\* logging levels (logging.DEBUG, logging.WARNING, logging.ERROR)
LevelNo == [DEBUG |-> 10, WARNING |-> 30, ERROR |-> 40]
LevelNames == DOMAIN LevelNo
\* SlackHandler(token, channel, **kwargs); handler.setLevel(logging.WARNING).
\* The handler builds its own SlackClient (self.client): it is the client of
\* this model, so the methods called directly are calls on handler.client.
handler_channel == "#general"
handler_kwargs == [username |-> "botname"]
handler_level == LevelNo["WARNING"]
\* logging.Formatter('[%(levelname)s] %(message)s')
format(record) == "[" \o record.levelname \o "] " \o record.msg

\* emit returns nothing
returns_none(p) == IF Raised(p) THEN p ELSE [p EXCEPT !.ret = None]

\* emit that posts without the keyword arguments bound at construction
emit_without_kwargs(p, record, orc) ==
    [frame |-> returns_none(chat_post_message(p, handler_channel, format(record),
                                              EmptyDict, orc)),
     posts |-> <<[channel |-> handler_channel, text |-> format(record),
                  params |-> EmptyDict]>>]

\* SlackHandler.emit: the frame after the post, and the chat_post_message
\* calls it made, each with its arguments
emit(p, record, orc) ==
    [frame |-> returns_none(chat_post_message(p, handler_channel, format(record),
                                              handler_kwargs, orc)),
     posts |-> <<[channel |-> handler_channel, text |-> format(record),
                  params |-> handler_kwargs]>>]

\* logging: a record reaches emit when its level is at or above the handler's
handle(p, record, orc) ==
    IF record.levelno >= handler_level THEN emit(p, record, orc)
    ELSE [frame |-> p, posts |-> <<>>]

\* ------------------------------------------------------------- inputs
ChannelArgs == {"#" \o n : n \in ChannelNames} \cup ChannelIds
\* channel_history calls: every channel with a count in range, and the
\* counts around the range's ends
HistoryArgs ==
    {[channel |-> c, count |-> MinCount, do_prettify |-> d] : c \in ChannelArgs, d \in BOOLEAN}
    \cup {[channel |-> "#general", count |-> n, do_prettify |-> TRUE]
             : n \in {MinCount - 1, MaxCount, MaxCount + 1}}
\* user names as the callers pass them: the platform's, and one it never has
UserArgs == UserNames \cup {"nobody"}
LogRecords == {[levelno |-> LevelNo[l], levelname |-> l, msg |-> "Oh noh!"] : l \in LevelNames}

\* no call: `token' is the token of the instance called, `blocked_before'
\* its deadline when the call started
Idle == [op |-> "none", token |-> "", blocked_before |-> NoDeadline,
         args |-> EmptyDict, err |-> NoErr, ret |-> None,
         calls |-> <<>>, attempts |-> 0, posts |-> <<>>]

\* SlackClient.__init__, with a platform that holds one channel and one user
Init ==
    /\ now = 0
    /\ srvChannels = [i \in ChannelIds |-> IF i = "C1" THEN ChannelNameOf[i] ELSE Absent]
    /\ srvUsers = [i \in UserIds |-> UserNameOf[i]]
    /\ channels = EmptyDict
    /\ ul_by_id = EmptyDict
    /\ ul_by_name = EmptyDict
    /\ blocked_until = NoDeadline
    /\ channel_name_id_map = EmptyDict
    /\ peer = NewClient(PeerToken)
    /\ last = Idle

\* The call returns or raises: the fields keep what the call did to them.
Finish(p, op, args, posts) ==
    /\ channels' = p.channels
    /\ ul_by_id' = p.ul_by_id
    /\ ul_by_name' = p.ul_by_name
    /\ blocked_until' = p.blocked_until
    /\ channel_name_id_map' = p.channel_name_id_map
    /\ last' = [op |-> op, token |-> p.token, blocked_before |-> blocked_until,
                args |-> args, err |-> p.err,
                ret |-> IF Raised(p) THEN None ELSE p.ret,
                calls |-> p.calls, attempts |-> p.attempts, posts |-> posts]
    /\ UNCHANGED <<now, srvChannels, srvUsers, peer>>

\* The same for a call on the second instance.
PeerFinish(p, op, args) ==
    /\ peer' = [token |-> p.token, channels |-> p.channels, ul_by_id |-> p.ul_by_id,
                ul_by_name |-> p.ul_by_name, blocked_until |-> p.blocked_until,
                channel_name_id_map |-> p.channel_name_id_map]
    /\ last' = [op |-> op, token |-> p.token, blocked_before |-> peer.blocked_until,
                args |-> args, err |-> p.err,
                ret |-> IF Raised(p) THEN None ELSE p.ret,
                calls |-> p.calls, attempts |-> p.attempts, posts |-> <<>>]
    /\ UNCHANGED <<now, srvChannels, srvUsers, channels, ul_by_id, ul_by_name,
                   blocked_until, channel_name_id_map>>

\* the number of requests a call sends when every request succeeds
Sends(p) == Len(p.calls)

SetupCache ==
    \E force_refresh \in BOOLEAN :
        \E orc \in Oracles(Sends(setup_cache(Frame, force_refresh, AllSucceed)), {<<>>}) :
            Finish(setup_cache(Frame, force_refresh, orc), "setup_cache",
                   [force_refresh |-> force_refresh], <<>>)

ChannelNameToId ==
    \E channel \in ChannelArgs, force_lookup \in BOOLEAN :
        \E orc \in Oracles(Sends(channel_name_to_id(Frame, channel, force_lookup, AllSucceed)),
                           {<<>>}) :
            Finish(channel_name_to_id(Frame, channel, force_lookup, orc),
                   "channel_name_to_id",
                   [channel |-> channel, force_lookup |-> force_lookup], <<>>)

AuthTest ==
    \E orc \in Oracles(Sends(auth_test(Frame, EmptyDict, AllSucceed)), {<<>>}) :
        Finish(auth_test(Frame, EmptyDict, orc), "auth_test", EmptyDict, <<>>)

ChatPostMessage ==
    \E channel \in ChannelArgs :
        \E orc \in Oracles(Sends(chat_post_message(Frame, channel, "hello", EmptyDict,
                                                   AllSucceed)), {<<>>}) :
            Finish(chat_post_message(Frame, channel, "hello", EmptyDict, orc),
                   "chat_post_message", [channel |-> channel], <<>>)

ChannelHistory ==
    \E a \in HistoryArgs :
        \E orc \in Oracles(Sends(channel_history(Frame, a.channel, a.count, a.do_prettify,
                                                 EmptyDict, AllSucceed)), Histories) :
            Finish(channel_history(Frame, a.channel, a.count, a.do_prettify, EmptyDict, orc),
                   "channel_history", a, <<>>)

ChannelsInvite ==
    \E channel \in ChannelArgs, user \in UserArgs :
        \E orc \in Oracles(Sends(channels_invite(Frame, channel, user, EmptyDict,
                                                 AllSucceed)), {<<>>}) :
            Finish(channels_invite(Frame, channel, user, EmptyDict, orc), "channels_invite",
                   [channel |-> channel, user |-> user], <<>>)

\* a message timestamp, as the callers pass it
Ts == "1405894322.002768"

ChatDelete ==
    \E channel \in ChannelArgs :
        \E orc \in Oracles(Sends(chat_delete(Frame, channel, Ts, EmptyDict, AllSucceed)),
                           {<<>>}) :
            Finish(chat_delete(Frame, channel, Ts, EmptyDict, orc), "chat_delete",
                   [channel |-> channel], <<>>)

ChatUpdate ==
    \E channel \in ChannelArgs :
        \E orc \in Oracles(Sends(chat_update(Frame, channel, Ts, "hello", EmptyDict,
                                             AllSucceed)), {<<>>}) :
            Finish(chat_update(Frame, channel, Ts, "hello", EmptyDict, orc), "chat_update",
                   [channel |-> channel], <<>>)

ChannelsInfo ==
    \E channel \in ChannelArgs :
        \E orc \in Oracles(Sends(channels_info(Frame, channel, EmptyDict, AllSucceed)),
                           {<<>>}) :
            Finish(channels_info(Frame, channel, EmptyDict, orc), "channels_info",
                   [channel |-> channel], <<>>)

ChannelsJoin ==
    \E channel \in ChannelArgs :
        \E orc \in Oracles(Sends(channels_join(Frame, channel, EmptyDict, AllSucceed)),
                           {<<>>}) :
            Finish(channels_join(Frame, channel, EmptyDict, orc), "channels_join",
                   [channel |-> channel], <<>>)

ChannelsLeave ==
    \E channel \in ChannelArgs :
        \E orc \in Oracles(Sends(channels_leave(Frame, channel, EmptyDict, AllSucceed)),
                           {<<>>}) :
            Finish(channels_leave(Frame, channel, EmptyDict, orc), "channels_leave",
                   [channel |-> channel], <<>>)

ChannelsMark ==
    \E channel \in ChannelArgs :
        \E orc \in Oracles(Sends(channels_mark(Frame, channel, Ts, EmptyDict, AllSucceed)),
                           {<<>>}) :
            Finish(channels_mark(Frame, channel, Ts, EmptyDict, orc), "channels_mark",
                   [channel |-> channel], <<>>)

ChannelsSetPurpose ==
    \E channel \in ChannelArgs :
        \E orc \in Oracles(Sends(channels_setPurpose(Frame, channel, "purpose", EmptyDict,
                                                     AllSucceed)), {<<>>}) :
            Finish(channels_setPurpose(Frame, channel, "purpose", EmptyDict, orc),
                   "channels_setPurpose", [channel |-> channel], <<>>)

ChannelsSetTopic ==
    \E channel \in ChannelArgs :
        \E orc \in Oracles(Sends(channels_setTopic(Frame, channel, "topic", EmptyDict,
                                                   AllSucceed)), {<<>>}) :
            Finish(channels_setTopic(Frame, channel, "topic", EmptyDict, orc),
                   "channels_setTopic", [channel |-> channel], <<>>)

EmojiList ==
    \E orc \in Oracles(Sends(emoji_list(Frame, EmptyDict, AllSucceed)), {<<>>}) :
        Finish(emoji_list(Frame, EmptyDict, orc), "emoji_list", EmptyDict, <<>>)

StarsList ==
    \E user \in UserArgs :
        \E orc \in Oracles(Sends(stars_list(Frame, user, DefaultCount, DefaultPage,
                                            EmptyDict, AllSucceed)), {<<>>}) :
            Finish(stars_list(Frame, user, DefaultCount, DefaultPage, EmptyDict, orc),
                   "stars_list", [user |-> user], <<>>)

ChatUpdateMessage ==
    \E channel \in ChannelArgs :
        \E orc \in Oracles(Sends(chat_update_message(Frame, channel, "hello", Ts, EmptyDict,
                                                     AllSucceed)), {<<>>}) :
            Finish(chat_update_message(Frame, channel, "hello", Ts, EmptyDict, orc),
                   "chat_update_message", [channel |-> channel], <<>>)

\* the second instance: setup_cache, channel_name_to_id, auth_test
PeerSetupCache ==
    \E force_refresh \in BOOLEAN :
        \E orc \in Oracles(Sends(setup_cache(PeerFrame, force_refresh, AllSucceed)), {<<>>}) :
            PeerFinish(setup_cache(PeerFrame, force_refresh, orc), "setup_cache",
                       [force_refresh |-> force_refresh])

PeerChannelNameToId ==
    \E channel \in ChannelArgs, force_lookup \in BOOLEAN :
        \E orc \in Oracles(Sends(channel_name_to_id(PeerFrame, channel, force_lookup,
                                                    AllSucceed)), {<<>>}) :
            PeerFinish(channel_name_to_id(PeerFrame, channel, force_lookup, orc),
                       "channel_name_to_id",
                       [channel |-> channel, force_lookup |-> force_lookup])

PeerAuthTest ==
    \E orc \in Oracles(Sends(auth_test(PeerFrame, EmptyDict, AllSucceed)), {<<>>}) :
        PeerFinish(auth_test(PeerFrame, EmptyDict, orc), "auth_test", EmptyDict)

\* logger.error(...) and the like: the logging framework hands the record over
Log ==
    \E record \in LogRecords :
        \E orc \in Oracles(Sends(handle(Frame, record, AllSucceed).frame), {<<>>}) :
            Finish(handle(Frame, record, orc).frame, "log",
                   [levelname |-> record.levelname], handle(Frame, record, orc).posts)

\* the caller has the result of the call and goes on
Return ==
    /\ last # Idle
    /\ last' = Idle
    /\ UNCHANGED <<now, srvChannels, srvUsers, channels, ul_by_id, ul_by_name,
                   blocked_until, channel_name_id_map, peer>>

\* ------------------------------------------------------- the environment
Tick ==
    /\ now < MaxTime
    /\ now' = now + 1
    /\ UNCHANGED <<srvChannels, srvUsers, channels, ul_by_id, ul_by_name,
                   blocked_until, channel_name_id_map, peer, last>>

\* a channel is created or deleted on the platform
PlatformChannels ==
    /\ \E i \in ChannelIds :
          srvChannels' = [srvChannels EXCEPT
                             ![i] = IF @ = Absent THEN ChannelNameOf[i] ELSE Absent]
    /\ UNCHANGED <<now, srvUsers, channels, ul_by_id, ul_by_name,
                   blocked_until, channel_name_id_map, peer, last>>

\* a user joins or leaves
PlatformUsers ==
    /\ \E i \in UserIds :
          srvUsers' = [srvUsers EXCEPT ![i] = IF @ = Absent THEN UserNameOf[i] ELSE Absent]
    /\ UNCHANGED <<now, srvChannels, channels, ul_by_id, ul_by_name,
                   blocked_until, channel_name_id_map, peer, last>>

\* One call at a time: a method is called once the caller has the result of
\* the call before; the clock and the platform move between calls.
Next ==
    \/ (last = Idle /\ SetupCache)
    \/ (last = Idle /\ ChannelNameToId)
    \/ (last = Idle /\ AuthTest)
    \/ (last = Idle /\ ChatPostMessage)
    \/ (last = Idle /\ ChannelHistory)
    \/ (last = Idle /\ ChannelsInvite)
    \/ (last = Idle /\ ChatDelete)
    \/ (last = Idle /\ ChatUpdate)
    \/ (last = Idle /\ ChannelsInfo)
    \/ (last = Idle /\ ChannelsJoin)
    \/ (last = Idle /\ ChannelsLeave)
    \/ (last = Idle /\ ChannelsMark)
    \/ (last = Idle /\ ChannelsSetPurpose)
    \/ (last = Idle /\ ChannelsSetTopic)
    \/ (last = Idle /\ EmojiList)
    \/ (last = Idle /\ StarsList)
    \/ (last = Idle /\ ChatUpdateMessage)
    \/ (last = Idle /\ Log)
    \/ Return
    \/ (last = Idle /\ Tick)
    \/ (last = Idle /\ PlatformChannels)
    \/ (last = Idle /\ PlatformUsers)

Spec == Init /\ [][Next]_vars

\* Two instances side by side, each with its own token, on one platform
\* (whose directories stay as they are) and one clock: both rebuild their
\* caches, resolve names and run into 429s.
NextPair ==
    \/ (last = Idle /\ SetupCache)
    \/ (last = Idle /\ ChannelNameToId)
    \/ (last = Idle /\ AuthTest)
    \/ (last = Idle /\ PeerSetupCache)
    \/ (last = Idle /\ PeerChannelNameToId)
    \/ (last = Idle /\ PeerAuthTest)
    \/ Return
    \/ (last = Idle /\ Tick)

SpecPair == Init /\ [][NextPair]_vars


\* ------------------------------------------------------------ properties
Called == last # Idle
Blocked == blocked_until # NoDeadline /\ now < blocked_until
ClientMethods == {"setup_cache", "channel_name_to_id", "auth_test", "chat_post_message",
                  "channel_history", "channels_invite"}
LastCall == last.calls[Len(last.calls)]
Failed == last.err.exc # "none"

\* C1 as stated: after a 429 with retry-after r, every client operation
\* started before the deadline fails with the rate-limit error and sends
\* nothing, and an operation started at or after the deadline is sent.
C1_AsStated ==
    [][(last = Idle /\ last'.op \in ClientMethods /\ blocked_until # NoDeadline)
        => IF now < blocked_until
           THEN last'.err.why = "wait_until" /\ last'.calls = <<>>
           ELSE last'.calls # <<>>]_vars

\* C1, amended: a 429 with retry-after r sets the deadline to the time of the
\* 429 plus r; a client operation started before the deadline sends nothing
\* and leaves every field as it was, and fails with the rate-limit error
\* carrying the deadline if it enters _make_request at all (otherwise it
\* ends as it would without the gate: a return without a request, the count
\* check, a user lookup); started at or after the deadline, its first
\* request is sent.
C1_RateLimitGate ==
    [][(last = Idle /\ last'.op \in ClientMethods)
        => /\ (last'.err.why = "retry_after"
                => /\ blocked_until' = now + last'.err.num
                   /\ last'.calls[Len(last'.calls)].response.status_code = TooManyRequests)
           /\ (Blocked
                => /\ last'.calls = <<>>
                   /\ UNCHANGED <<channels, ul_by_id, ul_by_name, blocked_until,
                                  channel_name_id_map>>
                   /\ IF last'.attempts > 0
                      THEN last'.err = Raise("SlackError", "wait_until", "", blocked_until)
                      ELSE last'.err.why \in {"", "count_out_of_range", "ul_by_name"})
           /\ (~Blocked /\ last'.attempts > 0 => last'.calls # <<>>)]_vars

\* C1 witness: a chat_post_message stopped by the gate before the deadline
C1_Witness ==
    /\ last.op = "chat_post_message"
    /\ Blocked
    /\ last.calls = <<>>
    /\ last.err.why = "wait_until"

\* the platform's listing at the time of the call (it does not move during one)
Listed(n) == \E i \in ChannelIds : srvChannels[i] = n
ListedId(n) == CHOOSE i \in ChannelIds : srvChannels[i] = n
ChannelSnapshot == {srvChannels[i] : i \in {j \in ChannelIds : srvChannels[j] # Absent}}
UserSnapshot == {srvUsers[i] : i \in {j \in UserIds : srvUsers[j] # Absent}}

C3_ResolveOnce ==
    [][/\ \A n \in ChannelNames :
            (last = Idle /\ last'.op = "channel_name_to_id" /\ ~last'.args.force_lookup
                /\ last'.args.channel = "#" \o n)
            => /\ (~Truthy(channel_name_id_map) /\ Listed(n) /\ last'.err.exc = "none")
                    => /\ last'.ret = ListedId(n)
                       /\ Len(last'.calls) = 1
                       /\ last'.calls[1].method = "channels.list"
                       /\ n \in DOMAIN channel_name_id_map'
               /\ n \in DOMAIN channel_name_id_map
                    => /\ last'.calls = <<>>
                       /\ last'.ret = channel_name_id_map[n]
       /\ \A n \in DOMAIN channel_name_id_map :
            ~(last'.op = "channel_name_to_id" /\ last'.args.force_lookup)
            => /\ n \in DOMAIN channel_name_id_map'
               /\ channel_name_id_map'[n] = channel_name_id_map[n]]_vars

\* C3 witness: '#general' resolved to C1 by one channels.list
C3_Witness ==
    /\ last.op = "channel_name_to_id"
    /\ last.args = [channel |-> "#general", force_lookup |-> FALSE]
    /\ Len(last.calls) = 1
    /\ last.ret = "C1"

\* C4 as stated: resolving a name the listing does not hold fails (it never
\* returns a value) after exactly one channels.list, with the mapping empty
\* or populated before the call.
C4_AsStated ==
    [][\A n \in ChannelNames :
          (last = Idle /\ ~Blocked /\ ~Listed(n)
              /\ last'.op = "channel_name_to_id" /\ ~last'.args.force_lookup
              /\ last'.args.channel = "#" \o n)
          => /\ Len(last'.calls) = 1
             /\ last'.calls[1].method = "channels.list"
             /\ last'.err.exc # "none"]_vars

Endpoint ==
    [auth_test |-> "auth.test", chat_post_message |-> "chat.postMessage",
     channels_invite |-> "channels.invite", channel_history |-> "channels.history"]

\* C6: a response with status 429 is never parsed, every other one is; a
\* parsed body whose ok is false ends the call with a SlackError carrying
\* exactly that body's error string; a parsed body whose ok is true is what
\* the method returns (channel_history: when it does not prettify).
C6_Responses ==
    Called
    => /\ \A i \in 1..Len(last.calls) :
            /\ last.calls[i].parsed
                   <=> last.calls[i].response.status_code # TooManyRequests
            /\ (last.calls[i].parsed /\ last.calls[i].response.json
                    /\ ~last.calls[i].response.body.ok)
               => /\ i = Len(last.calls)
                  /\ last.err.exc = "SlackError"
                  /\ last.err.code = last.calls[i].response.body.error
       /\ (/\ last.op \in DOMAIN Endpoint
           /\ last.calls # <<>>
           /\ LastCall.method = Endpoint[last.op]
           /\ LastCall.parsed /\ LastCall.response.json /\ LastCall.response.body.ok
           /\ (last.op = "channel_history" => ~last.args.do_prettify))
          => (~Failed /\ last.ret = LastCall.response.body)

\* C6 witness: auth_test answered {"ok": false, "error": "channel_not_found"}
C6_Witness ==
    /\ last.op = "auth_test"
    /\ Len(last.calls) = 1
    /\ last.calls[1].response.status_code = 200
    /\ last.err = Raise("SlackError", "api", "channel_not_found", 0)

\* C7: a channel_history that returns gives the messages of the response in
\* their order; with do_prettify every message with a user field carries the
\* record of self.ul_by_id for that id instead, and a message without the
\* field is as it came; without do_prettify every message is as it came.
C7_Prettify ==
    (last.op = "channel_history" /\ ~Failed)
    => /\ LastCall.method = "channels.history"
       /\ Len(last.ret.messages) = Len(LastCall.response.body.messages)
       /\ \A i \in 1..Len(last.ret.messages) :
            IF last.args.do_prettify /\ "user" \in DOMAIN LastCall.response.body.messages[i]
            THEN /\ LastCall.response.body.messages[i].user \in DOMAIN ul_by_id
                 /\ last.ret.messages[i] =
                        [text |-> LastCall.response.body.messages[i].text,
                         user |-> ul_by_id[LastCall.response.body.messages[i].user]]
            ELSE last.ret.messages[i] = LastCall.response.body.messages[i]

\* C7 witness: a prettified history of two messages, the first by U1, the
\* second without a user
C7_Witness ==
    /\ last.op = "channel_history"
    /\ last.args.do_prettify
    /\ ~Failed
    /\ Len(last.ret.messages) = 2
    /\ last.ret.messages[1] = [text |-> "hi", user |-> [id |-> "U1", name |-> "alice"]]
    /\ last.ret.messages[2] = [text |-> "hi"]

\* C8: a record at or above the handler's level makes exactly one
\* chat_post_message call, with the handler's channel, the formatted text
\* and the keyword arguments of the construction (which the chat.postMessage
\* request then carries); a record below the level makes none.
C8_Handler ==
    last.op = "log"
    => IF LevelNo[last.args.levelname] >= LevelNo["WARNING"]
       THEN /\ last.posts = <<[channel |-> "#general",
                               text |-> IF last.args.levelname = "ERROR"
                                        THEN "[ERROR] Oh noh!" ELSE "[WARNING] Oh noh!",
                               params |-> [username |-> "botname"]]>>
            /\ \A i \in 1..Len(last.calls) :
                   last.calls[i].method = "chat.postMessage"
                   => /\ last.calls[i].params["username"] = "botname"
                      /\ last.calls[i].params["text"] = last.posts[1].text
       ELSE last.posts = <<>> /\ last.calls = <<>>

\* C8 witness: an ERROR record posted once, the request sent
C8_Witness ==
    /\ last.op = "log"
    /\ last.args.levelname = "ERROR"
    /\ Len(last.posts) = 1
    /\ ~Failed
    /\ LastCall.method = "chat.postMessage"

\* C9 as stated: a rebuilt mapping is the listing that rebuilt it and nothing
\* else (self.ul_by_id apart from the Slackbot entry).
C9_AsStated ==
    /\ (last.op = "setup_cache" /\ last.args.force_refresh /\ ~Failed)
       => /\ DOMAIN channels = ChannelSnapshot
          /\ DOMAIN ul_by_name = UserSnapshot
          /\ DOMAIN ul_by_id \ {SLACKBOT} = {i \in UserIds : srvUsers[i] # Absent}
    /\ (last.op = "channel_name_to_id" /\ last.args.force_lookup /\ ~Failed)
       => DOMAIN channel_name_id_map = ChannelSnapshot

\* C10 as stated: with the mapping populated, resolving a name it does not
\* hold and the platform's listing does sends exactly one channels.list,
\* replaces the mapping by the response and returns the name's id.
C10_AsStated ==
    [][\A n \in ChannelNames :
          (last = Idle /\ ~Blocked /\ Truthy(channel_name_id_map)
              /\ n \notin DOMAIN channel_name_id_map /\ Listed(n)
              /\ last'.op = "channel_name_to_id" /\ ~last'.args.force_lookup
              /\ last'.args.channel = "#" \o n)
          => /\ Len(last'.calls) = 1
             /\ last'.calls[1].method = "channels.list"
             /\ last'.err.exc = "none"
                => /\ last'.ret = ListedId(n)
                   /\ DOMAIN channel_name_id_map' = ChannelSnapshot]_vars

\* the endpoints that take a channel, and the parameter that carries it
ChannelEndpoints ==
    {"chat.postMessage", "chat.update", "chat.delete", "channels.history", "channels.info",
     "channels.invite", "channels.join", "channels.leave", "channels.mark",
     "channels.setPurpose", "channels.setTopic"}
ChannelKey(method) == IF method = "channels.join" THEN "name" ELSE "channel"

\* C11 as stated: every request to an endpoint that takes a channel carries
\* a channel id of the platform, never None and never a name.
C11_AsStated ==
    \A i \in 1..Len(last.calls) :
        last.calls[i].method \in ChannelEndpoints
        => last.calls[i].params[ChannelKey(last.calls[i].method)] \in ChannelIds

\* a setup_cache() called now, every request of it answered with the listing
SetupAgain == setup_cache(Frame, FALSE, AllSucceed)

\* C12 as stated: a setup_cache() that immediately follows a successful
\* setup_cache() sends nothing and leaves every mapping as it is, whatever
\* the listings held (an empty channel list, an empty member list).
C12_AsStated ==
    (last.op = "setup_cache" /\ ~Failed)
    => /\ SetupAgain.calls = <<>>
       /\ SetupAgain.channels = channels
       /\ SetupAgain.ul_by_id = ul_by_id
       /\ SetupAgain.ul_by_name = ul_by_name

\* C13 as stated: a call of a public method sends at most two requests
\* before it returns or fails.
C13_AsStated == Len(last.calls) <= 2

\* C14 as stated: a call that fails leaves the four mappings as they were
\* when it started, and changes the deadline only if it received a 429.
C14_AsStated ==
    [][(last = Idle /\ last'.err.exc # "none")
        => /\ UNCHANGED <<channels, ul_by_id, ul_by_name, channel_name_id_map>>
           /\ (blocked_until' # blocked_until
                 => /\ last'.calls # <<>>
                    /\ last'.calls[Len(last'.calls)].response.status_code
                           = TooManyRequests)]_vars

\* the retry-after seconds C15 reads from a 429: the header's integer, and 1
\* when the header is absent or is no integer
StatedRetryAfter(headers) ==
    IF "retry-after" \in DOMAIN headers /\ PyInt(headers["retry-after"]).ok
    THEN PyInt(headers["retry-after"]).val
    ELSE 1

\* C15 as stated: a call that received a 429 ends with the deadline at the
\* time of the 429 plus the retry-after seconds (1 for an absent or malformed
\* header) and fails with the rate-limit error.
C15_AsStated ==
    \A i \in 1..Len(last.calls) :
        last.calls[i].response.status_code = TooManyRequests
        => /\ blocked_until = now + StatedRetryAfter(last.calls[i].response.headers)
           /\ last.err.exc = "SlackError"
           /\ last.err.why = "retry_after"

\* every request of the call was answered 200 with a body whose ok is true
AllAnswered(c) ==
    \A i \in 1..Len(c.calls) :
        /\ c.calls[i].response.status_code = 200
        /\ c.calls[i].response.json
        /\ c.calls[i].response.body.ok
UserMethods == {"channels_invite", "stars_list"}

\* C16 as stated: with the user mappings populated and the user name not in
\* ul_by_name, channels_invite and stars_list fail with the key-not-found
\* error and send neither users.list nor channels.invite / stars.list.
C16_AsStated ==
    [][\A u \in UserArgs :
          (last = Idle /\ Truthy(ul_by_id) /\ u \notin DOMAIN ul_by_name
              /\ last'.op \in UserMethods /\ last'.args.user = u)
          => /\ last'.err.exc = "KeyError"
             /\ \A i \in 1..Len(last'.calls) :
                    last'.calls[i].method
                        \notin {"users.list", "channels.invite", "stars.list"}]_vars

\* C16, amended: with the user mappings populated and the user name not in
\* ul_by_name, channels_invite and stars_list fail, leave the user mappings
\* as they are and send nothing but channels.list requests (those of
\* setup_cache and channel_name_to_id on an empty channel cache or name
\* mapping); the error is the KeyError of the name unless one of these
\* requests failed or was stopped by the gate, whose error it is then.
C16_NoUserRefresh ==
    [][\A u \in UserArgs :
          (last = Idle /\ Truthy(ul_by_id) /\ u \notin DOMAIN ul_by_name
              /\ last'.op \in UserMethods /\ last'.args.user = u)
          => /\ last'.err.exc # "none"
             /\ UNCHANGED <<ul_by_id, ul_by_name>>
             /\ \A i \in 1..Len(last'.calls) : last'.calls[i].method = "channels.list"
             /\ IF AllAnswered(last') /\ last'.attempts = Len(last'.calls)
                THEN last'.err = Raise("KeyError", "ul_by_name", u, 0)
                ELSE last'.err.exc \in {"SlackError", "ValueError"}]_vars

\* C16 witness: alice is cached, "nobody" is not: channels_invite raised the
\* KeyError of that name
C16_Witness ==
    /\ last.op = "channels_invite"
    /\ last.args.user = "nobody"
    /\ "alice" \in DOMAIN ul_by_name
    /\ last.blocked_before = NoDeadline
    /\ last.err = Raise("KeyError", "ul_by_name", "nobody", 0)

\* the methods that send channels.list only to rebuild a channel mapping
RebuildingMethods ==
    {"setup_cache", "channel_name_to_id", "chat_post_message", "chat_delete",
     "chat_update", "channel_history", "channels_info", "channels_invite",
     "channels_join", "channels_leave", "channels_mark", "channels_setPurpose",
     "channels_setTopic", "stars_list", "chat_update_message", "log"}

\* C17 as stated: every channels.list request sent to rebuild a channel
\* mapping carries exclude_archived enabled.
C17_AsStated ==
    last.op \in RebuildingMethods
    => \A i \in 1..Len(last.calls) :
           last.calls[i].method = "channels.list"
           => last.calls[i].params["exclude_archived"] = ExcludeArchivedOn

\* the gate of the second instance is closed
PeerBlocked == peer.blocked_until # NoDeadline /\ now < peer.blocked_until

\* C18: a call on one instance leaves every field of the other as it is
\* (deadline, mappings, token), each request carries the token of the
\* instance that sends it, and a call is stopped by the gate only when the
\* deadline of its own instance is ahead; with its own gate open its first
\* request is sent, whatever the deadline of the other instance.
C18_Instances ==
    [][(last = Idle /\ last' # Idle)
        => /\ \A i \in 1..Len(last'.calls) : last'.calls[i].params["token"] = last'.token
           /\ last'.token = Token
                => /\ peer' = peer
                   /\ (last'.err.why = "wait_until" => Blocked)
                   /\ (~Blocked /\ last'.attempts > 0 => last'.calls # <<>>)
           /\ last'.token = PeerToken
                => /\ UNCHANGED <<channels, ul_by_id, ul_by_name, blocked_until,
                                  channel_name_id_map>>
                   /\ peer'.token = PeerToken
                   /\ (last'.err.why = "wait_until" => PeerBlocked)
                   /\ (~PeerBlocked /\ last'.attempts > 0 => last'.calls # <<>>)]_vars

\* C18 witness: during the cooldown of the first instance, while its caches
\* are still empty, the second has rebuilt its caches with two requests
C18_Witness ==
    /\ Blocked
    /\ ~Truthy(channels)
    /\ last.token = PeerToken
    /\ last.op = "setup_cache"
    /\ Len(last.calls) = 2
    /\ ~Failed
    /\ Truthy(peer.channels)

\* C19: the deadline starts unset; once set it is never unset and never
\* moves backwards; and it changes only in a call that passed the gate and
\* received a 429, to the time of the 429 plus the retry-after seconds.
C19_DeadlineMonotone ==
    /\ blocked_until = NoDeadline
    /\ [][/\ blocked_until # NoDeadline
               => (blocked_until' # NoDeadline /\ blocked_until' >= blocked_until)
          /\ blocked_until' # blocked_until
               => /\ ~Blocked
                  /\ last'.err.why = "retry_after"
                  /\ last'.err.num >= 0
                  /\ blocked_until' = now + last'.err.num]_vars

\* C19 witness: a 429 has moved a deadline that was already set forward
C19_Witness ==
    /\ last.err.why = "retry_after"
    /\ last.blocked_before # NoDeadline
    /\ blocked_until > last.blocked_before

====
